---- MODULE Spec2Model ----
(***************************************************************************)
(* State-machine model of library/errata_tool_cdn_repo.py: the            *)
(* reconciliation of one declared CDN repository (attributes plus the      *)
(* package -> tag template associations) against the Errata Tool.         *)
(*                                                                         *)
(* One run of ensure_cdn_repo is a sequence of steps, one per remote call. *)
(* The remote service is part of the state: it answers reads from its      *)
(* records and applies each accepted mutation exactly as requested.  Two   *)
(* runs with the same declared input follow each other, so that a run can  *)
(* be compared with the run before it.                                     *)
(*                                                                         *)
(* Tag templates are numbered 1, 2, ... (a number stands for one template  *)
(* string); Python's None is the string None below.                        *)
(***************************************************************************)
EXTENDS Integers, Sequences, FiniteSets, TLC

VARIABLES
    remote_repos,   \* the records GET api/v1/cdn_repos?filter[name] returns
    remote_tags,    \* the records of api/v1/cdn_repo_package_tags, in listing order
    next_id,        \* the next id the remote assigns
    faults,         \* how many more calls the remote may refuse
    declared,       \* the task's parameters (module.params)
    check_mode,     \* module.check_mode of the current run
    run,            \* 1 or 2: which of the successive runs this is
    pc,             \* position of the current run
    packages,       \* ensure_cdn_repo: the normalized packages
    cdn_repo,       \* ensure_cdn_repo: <<>> for None, or <<the repo dict>>
    result,         \* ensure_cdn_repo: the result dict
    page_number,    \* get_package_tags
    elements,       \* get_package_tags
    found,          \* get_package_tags
    current,        \* ensure_packages_tags: the mapping get_package_tags returned
    changes,        \* ensure_packages_tags: the changes list
    pkgs_left,      \* ensure_packages_tags: packages the loop has not reached
    cur_pkg,        \* ensure_package_tags: the package being handled, or None
    phase,          \* ensure_package_tags: which of its three loops runs
    todo,           \* ensure_package_tags: templates the running loop has left
    calls,          \* every remote call of the current run, in order
    error,          \* the exception that ended the current run, or None
    prev            \* what the previous run did

vars == <<remote_repos, remote_tags, next_id, faults, declared, check_mode, run,
          pc, packages, cdn_repo, result, page_number, elements, found, current,
          changes, pkgs_left, cur_pkg, phase, todo, calls, error, prev>>

-----------------------------------------------------------------------------
(* Program constants and the bounds of the model *)

PAGE_SIZE == 100

\* A small package's tag templates are 1..MaxTpl.
MaxTpl == 3
\* The remote refuses at most MaxFaults calls that it could have served.
MaxFaults == 1
\* A tag list declared as written (with repeated and malformed tags) has at
\* most MaxDecl tags.
MaxDecl == 2

None == "<None>"
RepoName == "repo1"
TagVariants == {"V1", "V2"}
Archs == {"x86_64", "s390x"}

\* Python truthiness of a variant value (None and '' are falsy).
Truthy(v) == v # None /\ v # ""

Min(a, b) == IF a <= b THEN a ELSE b

\* The largest number of a non-empty set.
Max(s) == CHOOSE x \in s : \A y \in s : y <= x

EmptyMap == [x \in {} |-> x]

\* The elements of a list.
Range(s) == {s[i] : i \in 1..Len(s)}

\* A Python dict whose key order counts: keys holds its keys in insertion
\* order, val its values by key.
Dict(keys, val) == [keys |-> keys, val |-> val]

-----------------------------------------------------------------------------
(* Declared tags and the normalizer *)

\* The settings dict of one tag: {} | {'variant': v} | {'id': i} | {'id': i, 'variant': v}
TagInfo(has_variant, variant, has_id, id) ==
    [has_variant |-> has_variant, variant |-> variant, has_id |-> has_id, id |-> id]

\* One key of a declared dict tag with its restriction dict.
Item(tpl, has_variant, variant) ==
    [tpl |-> tpl, has_variant |-> has_variant, variant |-> variant]

\* A declared tag: a string, a dict (its items in iteration order), or something else.
StrTag(tpl) == [kind |-> "str", tpl |-> tpl, items |-> <<>>]
DictTag(items) == [kind |-> "dict", tpl |-> 0, items |-> items]
OtherTag == [kind |-> "other", tpl |-> 0, items |-> <<>>]

\* tag.get('variant')
GetVariant(tag) == IF tag.has_variant THEN tag.variant ELSE None

\* What normalize_packages does with one tag: the key it sets for a string
\* or for a dict (next(iter(tag)), the dict's first key), or the exception.
TagError(tag) ==
    IF tag.kind = "str" THEN None
    ELSE IF tag.kind = "dict"
    THEN IF tag.items = <<>> THEN "StopIteration" ELSE None
    ELSE "ValueError"

TagKey(tag) == IF tag.kind = "str" THEN tag.tpl ELSE tag.items[1].tpl

TagValue(tag) ==
    IF tag.kind = "str" THEN TagInfo(FALSE, None, FALSE, 0)
    ELSE TagInfo(tag.items[1].has_variant, tag.items[1].variant, FALSE, 0)

\* The inner loop keeping the first tag of a key instead of the last.
NormalizeTagsFirstWins(tags) ==
    LET idx == 1..Len(tags)
        bad == {i \in idx : TagError(tags[i]) # None}
        first(t) == CHOOSE i \in idx :
                        /\ TagKey(tags[i]) = t
                        /\ \A j \in idx : TagKey(tags[j]) = t => i <= j
    IN  IF bad # {}
        THEN [err |-> TagError(tags[CHOOSE i \in bad : \A j \in bad : i <= j]),
              tags |-> EmptyMap]
        ELSE [err |-> None,
              tags |-> [t \in {TagKey(tags[i]) : i \in idx} |-> TagValue(tags[first(t)])]]

\* The inner loop of normalize_packages over one package's list: the first
\* tag that raises ends it, and a later tag overwrites an earlier tag's key.
NormalizeTags(tags) ==
    LET idx == 1..Len(tags)
        bad == {i \in idx : TagError(tags[i]) # None}
        last(t) == Max({i \in idx : TagKey(tags[i]) = t})
    IN  IF bad # {}
        THEN [err |-> TagError(tags[CHOOSE i \in bad : \A j \in bad : i <= j]),
              tags |-> EmptyMap]
        ELSE [err |-> None,
              tags |-> [t \in {TagKey(tags[i]) : i \in idx} |-> TagValue(tags[last(t)])]]

\* normalize_packages on the packages dict: the packages are taken in the
\* order of the dict, so the first package with a tag that raises gives the
\* exception.  err is the exception raised (None when it returns), pk the
\* normalized dict by package (its keys are in the order of pkgs.keys).
normalize_packages(pkgs) ==
    LET one(p) == NormalizeTags(pkgs.val[p])
        bad == {i \in 1..Len(pkgs.keys) : one(pkgs.keys[i]).err # None}
        first == CHOOSE i \in bad : \A j \in bad : i <= j
    IN  [err |-> IF bad = {} THEN None ELSE one(pkgs.keys[first]).err,
         pk  |-> [p \in Range(pkgs.keys) |-> one(p).tags]]

\* "val is not None" of line 600, for a value of any type: a string, a
\* bool or a list is told from None by how it is written.
IsNone(v) == ToString(v) = ToString(None)

\* Lines 600-607: the keys of params, in order.  Every parameter whose value
\* is None is dropped, packages is popped and package_names is set last.
ParamKeys(d) ==
    SelectSeq(d.keys, LAMBDA k : k # "packages" /\ ~IsNone(d.val[k]))
        \o <<"package_names">>

\* Lines 600-607: ensure_cdn_repo's params, with the names of the declared
\* packages in the order of the packages dict under package_names.
params ==
    LET ks == ParamKeys(declared)
    IN  Dict(ks, [k \in Range(ks) |->
                     IF k = "package_names" THEN declared.val.packages.keys
                     ELSE declared.val[k]])

-----------------------------------------------------------------------------
(* The remote service *)

\* The attributes of a repository record.
Attrs(name, release_type, content_type, use_for_tps) ==
    [name |-> name, release_type |-> release_type, content_type |-> content_type,
     use_for_tps |-> use_for_tps]

\* A repository record of the remote: its id, its attributes and its
\* relationships (the variants and the packages are lists of names).
Repo(id, attributes, arch, variants, has_packages, package_names) ==
    [id |-> id, attributes |-> attributes, arch |-> arch, variants |-> variants,
     has_packages |-> has_packages, package_names |-> package_names]

Assoc(id, pkg, tpl, has_variant, variant) ==
    [id |-> id, pkg |-> pkg, tpl |-> tpl, has_variant |-> has_variant,
     variant |-> variant]

\* The JSON body of a cdn_repos POST or PUT is the mapping of its fields; a
\* call without a body has the empty mapping.
NoBody == EmptyMap

\* body.get(k, default)
BodyGet(body, k, default) == IF k \in DOMAIN body THEN body[k] ELSE default

\* One remote call as issued: ok is whether the remote answered with the
\* success status the caller expects.
Call(verb, endpoint, id, page, pkg, tpl, variant, body, ok) ==
    [verb |-> verb, endpoint |-> endpoint, id |-> id, page |-> page, pkg |-> pkg,
     tpl |-> tpl, variant |-> variant, body |-> body, ok |-> ok]

Mutating(c) == c.verb \in {"POST", "PUT", "DELETE"}

\* GET api/v1/cdn_repo_package_tags?page[size]=PAGE_SIZE&page[number]=n
RemotePage(n) ==
    SubSeq(remote_tags, (n - 1) * PAGE_SIZE + 1, Min(n * PAGE_SIZE, Len(remote_tags)))

\* DELETE api/v1/cdn_repo_package_tags/{id}: the records without that one.
SeqRemove(s, id) == SelectSeq(s, LAMBDA e : e.id # id)

HasId(id) == \E i \in 1..Len(remote_tags) : remote_tags[i].id = id
HasTag(pkg, tpl) ==
    \E i \in 1..Len(remote_tags) : remote_tags[i].pkg = pkg /\ remote_tags[i].tpl = tpl

\* POST api/v1/cdn_repos: the record the remote stores for the body.
RemoteCreateRepo(body) ==
    Repo(next_id,
         Attrs(BodyGet(body, "name", None), BodyGet(body, "release_type", None),
               BodyGet(body, "content_type", None),
               BodyGet(body, "use_for_tps", FALSE)),
         BodyGet(body, "arch_name", None),
         BodyGet(body, "variant_names", <<>>),
         TRUE,
         BodyGet(body, "package_names", <<>>))

\* PUT api/v1/cdn_repos/{id}: the record after the keys of the body were set.
RemoteEditRepo(r, body) ==
    Repo(r.id,
         Attrs(BodyGet(body, "name", r.attributes.name),
               BodyGet(body, "release_type", r.attributes.release_type),
               BodyGet(body, "content_type", r.attributes.content_type),
               BodyGet(body, "use_for_tps", r.attributes.use_for_tps)),
         BodyGet(body, "arch_name", r.arch),
         BodyGet(body, "variant_names", r.variants),
         IF "package_names" \in DOMAIN body THEN TRUE ELSE r.has_packages,
         BodyGet(body, "package_names", r.package_names))

\* PUT api/v1/cdn_repo_package_tags/{id} with variant_name or variant_id: null.
RemoteEditTag(id, variant) ==
    [i \in 1..Len(remote_tags) |->
        IF remote_tags[i].id = id
        THEN [remote_tags[i] EXCEPT !.has_variant = (variant # None),
                                    !.variant = variant]
        ELSE remote_tags[i]]

-----------------------------------------------------------------------------
(* The pure functions of the module *)

\* One human-readable change.  kind names the message's format string; pkg is
\* the package (or, for a settings change, the changed key).
Msg(kind, pkg, tpl, old, new) ==
    [kind |-> kind, pkg |-> pkg, tpl |-> tpl, old |-> old, new |-> new]

\* Lines 273-287 of get_cdn_repo: the simplified repo dict of a record, with
\* the record's attributes and the names of its variants and packages in the
\* order of the response.
cdn_repo_of(data) ==
    [id |-> data.id,
     name |-> data.attributes.name,
     release_type |-> data.attributes.release_type,
     content_type |-> data.attributes.content_type,
     use_for_tps |-> data.attributes.use_for_tps,
     arch |-> data.arch,
     variants |-> data.variants,
     package_names |-> IF data.has_packages THEN data.package_names ELSE <<>>]

\* A lookup that never finds the repository.
get_cdn_repo_never_found(results) == [err |-> None, repo |-> <<>>]

\* A lookup that takes the first of several matches.
get_cdn_repo_first_match(results) ==
    IF results = <<>> THEN [err |-> None, repo |-> <<>>]
    ELSE [err |-> None, repo |-> <<cdn_repo_of(results[1])>>]

\* get_cdn_repo(client, name) on the results of the lookup: repo is <<>> for
\* None, err the exception raised.
get_cdn_repo(results) ==
    IF results = <<>> THEN [err |-> None, repo |-> <<>>]
    ELSE IF Len(results) > 1 THEN [err |-> "ValueError", repo |-> <<>>]
    ELSE [err |-> None, repo |-> <<cdn_repo_of(results[1])>>]

\* The params sent under their own names.
cdn_repo_api_data_untranslated(p) == p

\* The name the REST API accepts for a key of params, and the key of a name.
WireName(k) ==
    IF k = "arch" THEN "arch_name"
    ELSE IF k = "variants" THEN "variant_names" ELSE k

ParamName(w) ==
    IF w = "arch_name" THEN "arch"
    ELSE IF w = "variant_names" THEN "variants" ELSE w

\* cdn_repo_api_data on the values of params by key: the body's cdn_repo
\* mapping.
cdn_repo_api_data(p) ==
    [w \in {WireName(k) : k \in DOMAIN p} |-> p[ParamName(w)]]

\* An edit body that holds every param.
edit_cdn_repo_data_all_keys(diffs, p) == cdn_repo_api_data(p)

\* Lines 318-322 of edit_cdn_repo: the body built from the differences, each
\* key with its new value.
edit_cdn_repo_data(diffs, p) ==
    cdn_repo_api_data([k \in Range(diffs) |-> p[k]])

\* common_errata_tool.diff_settings: the keys of params whose value differs,
\* in the order of params (each stands for the triple (key, settings[key],
\* params[key])).  Lists are compared as lists.
diff_settings(settings, p) ==
    SelectSeq(p.keys, LAMBDA k : settings[k] # p.val[k])

\* common_errata_tool.describe_changes
describe_changes(diffs) ==
    [i \in 1..Len(diffs) |-> Msg("changing setting", diffs[i], 0, None, None)]

\* The page loop's test "found == PAGE_SIZE": found is the list of elements of
\* the page, and in Python a list never equals an int.
ListEqualsInt(lst, n) == FALSE

\* Lines 234-247 of get_package_tags: the elements as a packages dict.
AssembleElements(elems) ==
    LET idx == 1..Len(elems)
        last(p, t) == Max({i \in idx : elems[i].pkg = p /\ elems[i].tpl = t})
    IN  [p \in {elems[i].pkg : i \in idx} |->
            [t \in {elems[i].tpl : i \in {j \in idx : elems[j].pkg = p}} |->
                LET e == elems[last(p, t)]
                IN  TagInfo(e.has_variant, e.variant, TRUE, e.id)]]

\* A comparison that tells only whether a variant is present.
compare_package_tags_presence(package_name, tag_template, cur, des) ==
    LET current_variant == GetVariant(cur)
        desired_variant == GetVariant(des)
    IN  IF Truthy(current_variant) /\ ~Truthy(desired_variant)
        THEN <<Msg("removing variant", package_name, tag_template,
                   current_variant, None)>>
        ELSE IF ~Truthy(current_variant) /\ Truthy(desired_variant)
        THEN <<Msg("adding variant", package_name, tag_template,
                   None, desired_variant)>>
        ELSE <<>>

\* compare_package_tags
compare_package_tags(package_name, tag_template, cur, des) ==
    LET current_variant == GetVariant(cur)
        desired_variant == GetVariant(des)
    IN  IF current_variant = desired_variant THEN <<>>
        ELSE IF Truthy(current_variant) /\ ~Truthy(desired_variant)
        THEN <<Msg("removing variant", package_name, tag_template,
                   current_variant, None)>>
        ELSE IF ~Truthy(current_variant) /\ Truthy(desired_variant)
        THEN <<Msg("adding variant", package_name, tag_template,
                   None, desired_variant)>>
        ELSE <<Msg("changing variant", package_name, tag_template,
                   current_variant, desired_variant)>>

\* current.get(package_name, []) in ensure_packages_tags
CurrentTags(cur, p) == IF p \in DOMAIN cur THEN cur[p] ELSE EmptyMap

\* A delete set that takes every current template.
tag_templates_to_delete_all(cur, des) == DOMAIN cur

\* The three template sets of ensure_package_tags.
tag_templates_to_delete(cur, des) == DOMAIN cur \ DOMAIN des
tag_templates_to_modify(cur, des) == DOMAIN cur \cap DOMAIN des
\* An add set that takes every desired template.
tag_templates_to_add_all(cur, des) == DOMAIN des

tag_templates_to_add(cur, des) == DOMAIN des \ DOMAIN cur

\* The modify loop does nothing for a template whose comparison is empty
\* (line 470), so the turns of the loop that count are those of the
\* templates whose comparison gives a difference.
tag_templates_changed(p, cur, des) ==
    {t \in tag_templates_to_modify(cur, des) :
        compare_package_tags(p, t, [cur[t] EXCEPT !.has_id = FALSE, !.id = 0], des[t])
            # <<>>}

PhaseTodo(ph, p, cur, des) ==
    IF ph = "delete" THEN tag_templates_to_delete(cur, des)
    ELSE IF ph = "modify" THEN tag_templates_changed(p, cur, des)
    ELSE IF ph = "add" THEN tag_templates_to_add(cur, des)
    ELSE {}

\* The loops in the order delete, add, modify.
NextPhaseAddBeforeModify(ph) ==
    IF ph = "delete" THEN "add"
    ELSE IF ph = "add" THEN "modify"
    ELSE "end"

\* The order of the three loops of ensure_package_tags.
NextPhase(ph) ==
    IF ph = "delete" THEN "modify"
    ELSE IF ph = "modify" THEN "add"
    ELSE "end"

\* Where ensure_package_tags stands once a loop has td left: in that loop, or
\* in the next loop that has a template, or at its return.
RECURSIVE Settle(_, _, _, _, _)
Settle(ph, td, p, cur, des) ==
    IF ph = "end" \/ td # {} THEN [phase |-> ph, todo |-> td]
    ELSE Settle(NextPhase(ph), PhaseTodo(NextPhase(ph), p, cur, des), p, cur, des)

\* The numbers of s in increasing order.
SortedSeq(s) ==
    IF s = {} THEN <<>>
    ELSE SelectSeq([i \in 1..Max(s) |-> i], LAMBDA x : x \in s)

\* A rendering that gives the bare template for every tag.
tag_name_or_variant_dict_bare(tag_name, tag_info) == StrTag(tag_name)

\* tag_name_or_variant_dict: a bare template, or {template: {'variant': v}}.
tag_name_or_variant_dict(tag_name, tag_info) ==
    IF tag_info.has_variant
    THEN DictTag(<<Item(tag_name, TRUE, tag_info.variant)>>)
    ELSE StrTag(tag_name)

\* package_list_for_diff
package_list_for_diff(all_packages) ==
    [p \in DOMAIN all_packages |->
        LET order == SortedSeq(DOMAIN all_packages[p])
        IN  [i \in 1..Len(order) |->
                tag_name_or_variant_dict(order[i], all_packages[p][order[i]])]]

\* prepare_diff_data: before is <<>> for None.
prepare_diff_data(before, after, before_packages, after_packages) ==
    [before_present |-> before # <<>>,
     before_packages |-> IF before # <<>> THEN package_list_for_diff(before_packages)
                         ELSE EmptyMap,
     after_packages |-> package_list_for_diff(after_packages)]

-----------------------------------------------------------------------------
(* Initial states *)

\* The state of a run that has not started.
FreshResult == [changed |-> FALSE, stdout_lines |-> <<>>, diff |-> <<>>]

NoPrev ==
    [outcome |-> "none", check_mode |-> FALSE, result |-> FreshResult,
     calls |-> <<>>, error |-> None]

RunLocalsFresh ==
    /\ pc = "start"
    /\ packages = EmptyMap
    /\ cdn_repo = <<>>
    /\ result = FreshResult
    /\ page_number = 0
    /\ elements = <<>>
    /\ found = <<>>
    /\ current = EmptyMap
    /\ changes = <<>>
    /\ pkgs_left = <<>>
    /\ cur_pkg = None
    /\ phase = "end"
    /\ todo = {}
    /\ calls = <<>>
    /\ error = None

\* The declared tag list of a small package: per template absent, a bare
\* string, or a dict restricting it to a variant, in template order.  The
\* first template takes any variant, the others the first variant.
DeclCases ==
    {c \in [1..MaxTpl -> {"absent", None} \cup TagVariants] :
        \A t \in 2..MaxTpl : c[t] # "V2"}

RECURSIVE DeclList(_, _)
DeclList(c, t) ==
    IF t > MaxTpl THEN <<>>
    ELSE IF c[t] = "absent" THEN DeclList(c, t + 1)
    ELSE IF c[t] = None THEN <<StrTag(t)>> \o DeclList(c, t + 1)
    ELSE <<DictTag(<<Item(t, TRUE, c[t])>>)>> \o DeclList(c, t + 1)

\* The declared packages: none, or package foo with a tag list.
DeclPackages(cases) ==
    {Dict(<<>>, EmptyMap)}
        \cup {Dict(<<"foo">>, [p \in {"foo"} |-> DeclList(c, 1)]) : c \in cases}

\* The keys of module.params in the order of the argument spec, and in the
\* order of a task that gives the variants first.
ArgSpecOrder ==
    <<"name", "release_type", "content_type", "arch", "use_for_tps", "variants",
      "packages">>
VariantsFirst ==
    <<"name", "variants", "release_type", "content_type", "arch", "use_for_tps",
      "packages">>

\* module.params as run_module hands them to ensure_cdn_repo.
ModuleParams(keys, content_type, arch, use_for_tps, variants, pkgs) ==
    Dict(keys, [name |-> RepoName, release_type |-> "Primary",
                content_type |-> content_type, arch |-> arch,
                use_for_tps |-> use_for_tps, variants |-> variants,
                packages |-> pkgs])

\* The task of the other families: a Binary repository for x86_64 and V1.
PlainParams(pkgs) ==
    ModuleParams(ArgSpecOrder, "Binary", "x86_64", FALSE, <<"V1">>, pkgs)

\* The attributes of the repository the remote holds.
PlainAttrs == Attrs(RepoName, "Primary", "Binary", FALSE)

\* The remote associations of a small package: per template absent, or
\* present without or with a variant.  c maps each template to its case.
RemoteCases == [1..MaxTpl -> {"absent", None, "V1"}]

RECURSIVE AssocsOf(_, _, _, _)
AssocsOf(c, pkg, t, id) ==
    IF t > MaxTpl THEN <<>>
    ELSE IF c[t] = "absent" THEN AssocsOf(c, pkg, t + 1, id)
    ELSE <<Assoc(id, pkg, t, c[t] # None, c[t])>> \o AssocsOf(c, pkg, t + 1, id + 1)

\* The cases that involve the first template only.
FirstOnly(cases) == {c \in cases : \A t \in DOMAIN c : t > 1 => c[t] = "absent"}

\* The cases without a variant restriction.
Unrestricted(cases) ==
    {c \in cases : \A t \in DOMAIN c : c[t] \in {"absent", None}}

\* A package with k unrestricted tags 1..k, on both sides.
BulkAssocs(k) == [i \in 1..k |-> Assoc(i, "bulk", i, FALSE, None)]
BulkDecl(k) == [i \in 1..k |-> StrTag(i)]

\* The lookup finds no repository, one, or two of the same name.  The one
\* repository found has any package list and any attributes against the
\* declared ones, and at most one association.
InitAttrs ==
    /\ \E n \in 0..2, hp \in BOOLEAN, pn \in {<<>>, <<"foo">>},
          c \in FirstOnly(RemoteCases) :
         /\ n # 1 => (hp /\ pn = <<>> /\ c = [t \in 1..MaxTpl |-> "absent"])
         /\ ~hp => pn = <<>>
         /\ remote_repos =
                [i \in 1..n |-> Repo(i, PlainAttrs, "x86_64", <<"V1">>, hp, pn)]
         /\ remote_tags = IF n = 1 THEN AssocsOf(c, "foo", 1, 1) ELSE <<>>
    /\ \E a \in Archs, vs \in {<<"V1">>, <<"V1", "V2">>},
          pk \in DeclPackages(FirstOnly(DeclCases)) :
         declared = ModuleParams(ArgSpecOrder, "Binary", a, FALSE, vs, pk)

\* The variants a task gives against a repository with V1, V2: the same, in
\* the other order, one variant twice, or null.
DeclVariants == <<<<"V1", "V2">>, <<"V2", "V1">>, <<"V1", "V1">>, None>>

\* One repository with the variants V1, V2 and the packages foo, bar without
\* associations, against a task that gives any attributes, the variants and
\* the two packages in either order, a variant twice or null for the
\* variants, and its keys in either order.
InitSettings ==
    /\ remote_repos = <<Repo(1, PlainAttrs, "x86_64", <<"V1", "V2">>, TRUE,
                             <<"foo", "bar">>)>>
    /\ remote_tags = <<>>
    /\ \E ks \in {ArgSpecOrder, VariantsFirst}, ct \in {"Binary", "Source"},
          a \in Archs, tps \in BOOLEAN, v \in 1..Len(DeclVariants),
          pn \in {<<"foo", "bar">>, <<"bar", "foo">>} :
         declared = ModuleParams(ks, ct, a, tps, DeclVariants[v],
                                 Dict(pn, [p \in {"foo", "bar"} |-> <<StrTag(1)>>]))

\* One repository whose attributes are as declared, with any associations of
\* package foo against any declared tag list.
InitTags ==
    \E c \in RemoteCases, pk \in DeclPackages(DeclCases) :
        /\ remote_repos = <<Repo(1, PlainAttrs, "x86_64", <<"V1">>, TRUE, pk.keys)>>
        /\ remote_tags = AssocsOf(c, "foo", 1, 1)
        /\ declared = PlainParams(pk)

\* A repository whose associations fill the first page of the listing, or
\* all but one place of it, with unrestricted associations of package foo
\* after them.
InitPaged ==
    \E k \in {PAGE_SIZE - 1, PAGE_SIZE}, c \in Unrestricted(RemoteCases),
       d \in FirstOnly(DeclCases) :
        /\ remote_repos = <<Repo(1, PlainAttrs, "x86_64", <<"V1">>, TRUE,
                                 <<"bulk", "foo">>)>>
        /\ remote_tags = BulkAssocs(k) \o AssocsOf(c, "foo", 1, k + 1)
        /\ declared = PlainParams(Dict(<<"bulk", "foo">>,
                                       [p \in {"bulk", "foo"} |->
                                           IF p = "bulk" THEN BulkDecl(k)
                                           ELSE DeclList(d, 1)]))

\* The tags a task file can hold for the templates 1 and 2: a string, a
\* dict with an empty or a variant restriction, something that is neither,
\* an empty dict and a dict of two keys.
RawTags ==
    UNION {{StrTag(t), DictTag(<<Item(t, FALSE, None)>>),
            DictTag(<<Item(t, TRUE, "V1")>>)} : t \in 1..2}
    \cup {OtherTag, DictTag(<<>>),
          DictTag(<<Item(1, FALSE, None), Item(2, TRUE, "V1")>>)}

RawLists == UNION {[1..n -> RawTags] : n \in 0..MaxDecl}

\* One repository with one association of package foo, against any tag list
\* of foo as written in the task, or against the packages foo and bar in
\* either order, each with one tag that is well-formed or raises.
InitRaw ==
    /\ remote_repos = <<Repo(1, PlainAttrs, "x86_64", <<"V1">>, TRUE, <<"foo">>)>>
    /\ remote_tags = <<Assoc(1, "foo", 1, FALSE, None)>>
    /\ \/ \E l \in RawLists :
            declared = PlainParams(Dict(<<"foo">>, [p \in {"foo"} |-> l]))
       \/ \E pn \in {<<"foo", "bar">>, <<"bar", "foo">>},
             f, b \in {StrTag(1), OtherTag, DictTag(<<>>)} :
            declared = PlainParams(Dict(pn, [p \in {"foo", "bar"} |->
                                               IF p = "foo" THEN <<f>> ELSE <<b>>]))

Init ==
    /\ InitAttrs \/ InitSettings \/ InitTags \/ InitPaged \/ InitRaw
    /\ next_id = Len(remote_tags) + 3
    /\ faults = MaxFaults
    /\ check_mode \in BOOLEAN
    /\ run = 1
    /\ prev = NoPrev
    /\ RunLocalsFresh

-----------------------------------------------------------------------------
(* The steps of one run of ensure_cdn_repo *)

remote == <<remote_repos, remote_tags, next_id>>
listing == <<page_number, elements, found>>
tagloop == <<current, changes, pkgs_left, cur_pkg, phase, todo>>

\* An error that is noted while the run goes on.
RaiseIgnored(e) ==
    /\ pc' = pc
    /\ error' = e

\* An exception leaves ensure_cdn_repo: the run is over without a result.
Raise(e) ==
    /\ pc' = "failed"
    /\ error' = e

\* Lines 599-608: the result, the params and the normalized packages.
EnsureBegin ==
    /\ pc = "start"
    /\ LET n == normalize_packages(declared.val.packages)
       IN  IF n.err # None
           THEN Raise(n.err) /\ UNCHANGED packages
           ELSE /\ packages' = n.pk
                /\ pc' = "lookup"
                /\ UNCHANGED error
    /\ result' = FreshResult
    /\ UNCHANGED <<remote, faults, declared, check_mode, run, cdn_repo, listing,
                   tagloop, calls, prev>>

\* Lines 611-617: get_cdn_repo(client, name) and the branch on its result.
\* refused: the remote answers with an error status.
LookupCdnRepo ==
    /\ pc = "lookup"
    /\ \E refused \in BOOLEAN :
         /\ refused => faults > 0
         /\ faults' = IF refused THEN faults - 1 ELSE faults
         /\ calls' = Append(calls, Call("GET", "cdn_repos", 0, 0, None, 0, None,
                                        NoBody, ~refused))
         /\ IF refused
            THEN Raise("HTTPError") /\ UNCHANGED <<cdn_repo, result>>
            ELSE IF get_cdn_repo(remote_repos).err # None
            THEN Raise(get_cdn_repo(remote_repos).err) /\ UNCHANGED <<cdn_repo, result>>
            ELSE IF get_cdn_repo(remote_repos).repo = <<>>
            THEN /\ cdn_repo' = <<>>
                 /\ result' = [changed |-> TRUE,
                               stdout_lines |-> <<Msg("created", params.val.name, 0, None, None)>>,
                               diff |-> <<prepare_diff_data(<<>>, params, EmptyMap,
                                                            packages)>>]
                 /\ pc' = IF check_mode THEN "done" ELSE "create"
                 /\ UNCHANGED error
            ELSE /\ cdn_repo' = get_cdn_repo(remote_repos).repo
                 /\ pc' = "diff"
                 /\ UNCHANGED <<result, error>>
    /\ UNCHANGED <<remote, declared, check_mode, run, packages, listing, tagloop, prev>>

\* Line 618: create_cdn_repo(client, params).
CreateCdnRepo ==
    /\ pc = "create"
    /\ \E refused \in BOOLEAN :
         LET body == cdn_repo_api_data(params.val)
             made == RemoteCreateRepo(body)
         IN  /\ refused => faults > 0
             /\ faults' = IF refused THEN faults - 1 ELSE faults
             /\ calls' = Append(calls, Call("POST", "cdn_repos", 0, 0, None, 0, None,
                                            body, ~refused))
             /\ IF refused
                THEN Raise("ValueError") /\ UNCHANGED <<remote, cdn_repo>>
                ELSE /\ remote_repos' = Append(remote_repos, made)
                     /\ next_id' = next_id + 1
                     /\ cdn_repo' = <<cdn_repo_of(made)>>
                     /\ pc' = "diff"
                     /\ UNCHANGED <<remote_tags, error>>
    /\ UNCHANGED <<declared, check_mode, run, packages, result, listing, tagloop, prev>>

\* Line 620: the differences between the repo dict and the params.
differences == diff_settings(cdn_repo[1], params)

\* The settings' differences, edited in a dry run too.
DiffSettingsUnguarded ==
    /\ pc = "diff"
    /\ result' = IF differences # <<>>
                 THEN [result EXCEPT !.changed = TRUE,
                                     !.stdout_lines = @ \o describe_changes(differences)]
                 ELSE result
    /\ pc' = IF differences # <<>> THEN "edit" ELSE "list"
    /\ UNCHANGED <<remote, faults, declared, check_mode, run, packages, cdn_repo,
                   listing, tagloop, calls, error, prev>>

\* Lines 620-625: the settings' differences and their description.
DiffSettings ==
    /\ pc = "diff"
    /\ result' = IF differences # <<>>
                 THEN [result EXCEPT !.changed = TRUE,
                                     !.stdout_lines = @ \o describe_changes(differences)]
                 ELSE result
    /\ pc' = IF differences # <<>> /\ ~check_mode THEN "edit" ELSE "list"
    /\ UNCHANGED <<remote, faults, declared, check_mode, run, packages, cdn_repo,
                   listing, tagloop, calls, error, prev>>

\* Line 627: edit_cdn_repo(client, cdn_repo['id'], differences).
EditCdnRepo ==
    /\ pc = "edit"
    /\ \E refused \in BOOLEAN :
         LET body == edit_cdn_repo_data(differences, params.val)
             id == cdn_repo[1].id
         IN  /\ refused => faults > 0
             /\ faults' = IF refused THEN faults - 1 ELSE faults
             /\ calls' = Append(calls, Call("PUT", "cdn_repos", id, 0, None, 0, None,
                                            body, ~refused))
             /\ IF refused
                THEN Raise("ValueError") /\ UNCHANGED remote
                ELSE /\ remote_repos' =
                            [i \in 1..Len(remote_repos) |->
                                IF remote_repos[i].id = id
                                THEN RemoteEditRepo(remote_repos[i], body)
                                ELSE remote_repos[i]]
                     /\ pc' = "list"
                     /\ UNCHANGED <<remote_tags, next_id, error>>
    /\ UNCHANGED <<declared, check_mode, run, packages, cdn_repo, result, listing,
                   tagloop, prev>>

\* Lines 230-233: one turn of the page loop of get_package_tags.
GetPackageTagsPage ==
    /\ pc = "list"
    /\ page_number = 0 \/ ListEqualsInt(found, PAGE_SIZE)
    /\ \E refused \in BOOLEAN :
         /\ refused => faults > 0
         /\ faults' = IF refused THEN faults - 1 ELSE faults
         /\ calls' = Append(calls, Call("GET", "cdn_repo_package_tags", 0,
                                        page_number + 1, None, 0, None, NoBody,
                                        ~refused))
         /\ page_number' = page_number + 1
         /\ IF refused
            THEN Raise("HTTPError") /\ UNCHANGED <<elements, found>>
            ELSE /\ found' = RemotePage(page_number + 1)
                 /\ elements' = elements \o RemotePage(page_number + 1)
                 /\ UNCHANGED <<pc, error>>
    /\ UNCHANGED <<remote, declared, check_mode, run, packages, cdn_repo, result,
                   tagloop, prev>>

\* Lines 234-247 and 504-507: the loop is over, get_package_tags returns the
\* packages dict and ensure_packages_tags starts on the declared packages,
\* which it takes in the order of the normalized dict (the order of the
\* declared dict, that of package_names).
GetPackageTagsReturn ==
    /\ pc = "list"
    /\ ~(page_number = 0 \/ ListEqualsInt(found, PAGE_SIZE))
    /\ current' = AssembleElements(elements)
    /\ changes' = <<>>
    /\ pkgs_left' = params.val.package_names
    /\ pc' = "tags"
    /\ UNCHANGED <<remote, faults, declared, check_mode, run, packages, cdn_repo,
                   result, listing, cur_pkg, phase, todo, calls, error, prev>>

\* The tags of the package in hand: current_tags and desired_tags.
current_tags == CurrentTags(current, cur_pkg)
desired_tags == packages[cur_pkg]

\* ensure_package_tags has handled template t of the running loop.
Handled(t) ==
    LET s == Settle(phase, todo \ {t}, cur_pkg, current_tags, desired_tags)
    IN  /\ phase' = s.phase
        /\ todo' = s.todo
        /\ cur_pkg' = IF s.phase = "end" THEN None ELSE cur_pkg

\* Lines 507-516 and 448-450: the loop of ensure_packages_tags takes the next
\* declared package and ensure_package_tags starts on it.
BeginPackage ==
    /\ pc = "tags"
    /\ cur_pkg = None
    /\ pkgs_left # <<>>
    /\ LET p == Head(pkgs_left)
           cur == CurrentTags(current, p)
           des == packages[p]
           s == Settle("delete", PhaseTodo("delete", p, cur, des), p, cur, des)
       IN  /\ pkgs_left' = Tail(pkgs_left)
           /\ phase' = s.phase
           /\ todo' = s.todo
           /\ cur_pkg' = IF s.phase = "end" THEN None ELSE p
    /\ UNCHANGED <<remote, faults, declared, check_mode, run, pc, packages, cdn_repo,
                   result, listing, current, changes, calls, error, prev>>

\* Lines 451-458: one turn of the loop over the templates to delete.
DeleteTag ==
    /\ pc = "tags"
    /\ cur_pkg # None
    /\ phase = "delete"
    /\ \E t \in todo, refused \in BOOLEAN :
         LET id_to_delete == current_tags[t].id
             ok == ~refused /\ HasId(id_to_delete)
         IN  /\ changes' = Append(changes,
                                  Msg("removing tag template", cur_pkg, t, None, None))
             /\ IF check_mode
                THEN /\ ~refused
                     /\ Handled(t)
                     /\ UNCHANGED <<remote, faults, calls, pc, error>>
                ELSE /\ refused => faults > 0
                     /\ faults' = IF refused THEN faults - 1 ELSE faults
                     /\ calls' = Append(calls, Call("DELETE", "cdn_repo_package_tags",
                                                    id_to_delete, 0, cur_pkg, t, None,
                                                    NoBody, ok))
                     /\ IF ok
                        THEN /\ remote_tags' = SeqRemove(remote_tags, id_to_delete)
                             /\ Handled(t)
                             /\ UNCHANGED <<remote_repos, next_id, pc, error>>
                        ELSE /\ Raise("ValueError")
                             /\ UNCHANGED <<remote, cur_pkg, phase, todo>>
    /\ UNCHANGED <<declared, check_mode, run, packages, cdn_repo, result, listing,
                   current, pkgs_left, prev>>

\* The id popped from the tag of the mapping itself.
CurrentAfterPopInPlace(cur, p, t) ==
    [cur EXCEPT ![p][t].has_id = FALSE, ![p][t].id = 0]

\* Lines 463-465: current_tag is a copy of current_tags[tag_template], so
\* popping its id leaves the mapping as it was.
CurrentAfterPop(cur, p, t) == cur

\* Lines 462-474: one turn of the loop over the templates to modify, for a
\* template whose variant differs.
ModifyTag ==
    /\ pc = "tags"
    /\ cur_pkg # None
    /\ phase = "modify"
    /\ \E t \in todo, refused \in BOOLEAN :
         LET current_tag == [current_tags[t] EXCEPT !.has_id = FALSE, !.id = 0]
             desired_tag == desired_tags[t]
             tag_template_id == current_tags[t].id
             diffs == compare_package_tags(cur_pkg, t, current_tag, desired_tag)
             variant == GetVariant(desired_tag)
             sent == IF Truthy(variant) THEN variant ELSE None
             ok == ~refused /\ HasId(tag_template_id)
         IN  /\ changes' = changes \o diffs
             /\ current' = CurrentAfterPop(current, cur_pkg, t)
             /\ IF check_mode
                THEN /\ ~refused
                     /\ Handled(t)
                     /\ UNCHANGED <<remote, faults, calls, pc, error>>
                ELSE /\ refused => faults > 0
                     /\ faults' = IF refused THEN faults - 1 ELSE faults
                     /\ calls' = Append(calls, Call("PUT", "cdn_repo_package_tags",
                                                    tag_template_id, 0, cur_pkg, t, sent,
                                                    NoBody, ok))
                     /\ IF ok
                        THEN /\ remote_tags' = RemoteEditTag(tag_template_id, sent)
                             /\ Handled(t)
                             /\ UNCHANGED <<remote_repos, next_id, pc, error>>
                        ELSE /\ Raise("ValueError")
                             /\ UNCHANGED <<remote, cur_pkg, phase, todo>>
    /\ UNCHANGED <<declared, check_mode, run, packages, cdn_repo, result, listing,
                   pkgs_left, prev>>

\* Lines 478-485: one turn of the loop over the templates to add.  The remote
\* refuses a second association of one template with one package.
AddTag ==
    /\ pc = "tags"
    /\ cur_pkg # None
    /\ phase = "add"
    /\ \E t \in todo, refused \in BOOLEAN :
         LET variant == GetVariant(desired_tags[t])
             sent == IF Truthy(variant) THEN variant ELSE None
             ok == ~refused /\ ~HasTag(cur_pkg, t)
         IN  /\ changes' = Append(changes,
                                  Msg("adding tag template", cur_pkg, t, None, None))
             /\ IF check_mode
                THEN /\ ~refused
                     /\ Handled(t)
                     /\ UNCHANGED <<remote, faults, calls, pc, error>>
                ELSE /\ refused => faults > 0
                     /\ faults' = IF refused THEN faults - 1 ELSE faults
                     /\ calls' = Append(calls, Call("POST", "cdn_repo_package_tags",
                                                    0, 0, cur_pkg, t, sent, NoBody, ok))
                     /\ IF ok
                        THEN /\ remote_tags' =
                                    Append(remote_tags,
                                           Assoc(next_id, cur_pkg, t, sent # None, sent))
                             /\ next_id' = next_id + 1
                             /\ Handled(t)
                             /\ UNCHANGED <<remote_repos, pc, error>>
                        ELSE /\ Raise("ValueError")
                             /\ UNCHANGED <<remote, cur_pkg, phase, todo>>
    /\ UNCHANGED <<declared, check_mode, run, packages, cdn_repo, result, listing,
                   current, pkgs_left, prev>>

\* A diff that is made whether or not something changed.
ResultDiffAlways(changed) ==
    IF result.diff = <<>>
    THEN <<prepare_diff_data(cdn_repo, params, current, packages)>>
    ELSE result.diff

\* Lines 638-640: the diff is made when something changed and the create
\* path has not made it.
ResultDiff(changed) ==
    IF changed /\ result.diff = <<>>
    THEN <<prepare_diff_data(cdn_repo, params, current, packages)>>
    ELSE result.diff

\* The tag changes put in front of the lines.
ResultLinesTagsFirst(lines, tag_changes) == tag_changes \o lines

\* Line 635: result['stdout_lines'].extend(package_tag_changes).
ResultLines(lines, tag_changes) == lines \o tag_changes

\* Lines 522 and 633-642: ensure_packages_tags returns and ensure_cdn_repo
\* completes the result.
EnsureReturn ==
    /\ pc = "tags"
    /\ cur_pkg = None
    /\ pkgs_left = <<>>
    /\ LET changed == result.changed \/ changes # <<>>
       IN  result' = [changed |-> changed,
                      stdout_lines |-> ResultLines(result.stdout_lines, changes),
                      diff |-> ResultDiff(changed)]
    /\ pc' = "done"
    /\ UNCHANGED <<remote, faults, declared, check_mode, run, packages, cdn_repo,
                   listing, tagloop, calls, error, prev>>

\* The task runs again with the same parameters, this time for real.
NextRun ==
    /\ pc \in {"done", "failed"}
    /\ run = 1
    /\ prev' = [outcome |-> pc, check_mode |-> check_mode, result |-> result,
                calls |-> calls, error |-> error]
    /\ run' = 2
    /\ check_mode' = FALSE
    /\ pc' = "start"
    /\ packages' = EmptyMap
    /\ cdn_repo' = <<>>
    /\ result' = FreshResult
    /\ page_number' = 0
    /\ elements' = <<>>
    /\ found' = <<>>
    /\ current' = EmptyMap
    /\ changes' = <<>>
    /\ pkgs_left' = <<>>
    /\ cur_pkg' = None
    /\ phase' = "end"
    /\ todo' = {}
    /\ calls' = <<>>
    /\ error' = None
    /\ UNCHANGED <<remote, faults, declared>>

Next ==
    \/ EnsureBegin
    \/ LookupCdnRepo
    \/ CreateCdnRepo
    \/ DiffSettings
    \/ EditCdnRepo
    \/ GetPackageTagsPage
    \/ GetPackageTagsReturn
    \/ BeginPackage
    \/ DeleteTag
    \/ ModifyTag
    \/ AddTag
    \/ EnsureReturn
    \/ NextRun

Spec == Init /\ [][Next]_vars

-----------------------------------------------------------------------------
(* What the claims speak about *)

NoMutatingCalls(cs) == \A i \in 1..Len(cs) : ~Mutating(cs[i])

\* The previous run was a real run that returned.
PrevRealDone == run = 2 /\ prev.outcome = "done" /\ ~prev.check_mode

\* The previous run was a real run that a refused remote call aborted.
PrevRealAborted ==
    /\ run = 2 /\ prev.outcome = "failed" /\ ~prev.check_mode
    /\ prev.calls # <<>> /\ ~prev.calls[Len(prev.calls)].ok

\* The remote associations of every declared package are exactly the declared
\* templates, each once and with the declared variant restriction or none.
TagsAsDeclared ==
    \A p \in DOMAIN packages :
        LET rs == {i \in 1..Len(remote_tags) : remote_tags[i].pkg = p}
        IN  /\ {remote_tags[i].tpl : i \in rs} = DOMAIN packages[p]
            /\ \A i, j \in rs : remote_tags[i].tpl = remote_tags[j].tpl => i = j
            /\ \A i \in rs :
                 LET v == GetVariant(packages[p][remote_tags[i].tpl])
                 IN  IF Truthy(v)
                     THEN remote_tags[i].has_variant /\ remote_tags[i].variant = v
                     ELSE ~remote_tags[i].has_variant

Converged == Len(remote_repos) = 1 /\ TagsAsDeclared

\* get_package_tags has just returned: no package tag was changed since.
JustListed ==
    pc = "tags" /\ cur_pkg = None /\ changes = <<>>
    /\ pkgs_left = params.val.package_names

\* C1: a real run that follows a completed real run with the same declared
\* input issues no mutating call and returns changed = false with an empty
\* change list.
C1_Idempotence ==
    PrevRealDone =>
        /\ NoMutatingCalls(calls)
        /\ pc = "done" => (~result.changed /\ result.stdout_lines = <<>>)

\* C2: when a real run has returned, the repository exists and the remote
\* associations of every declared package are exactly the declared ones.
C2_Convergence == (pc = "done" /\ ~check_mode) => Converged

\* C3: a dry run issues only GET calls and no step of it changes the remote.
C3_DryRunNoMutation ==
    /\ [](check_mode => \A i \in 1..Len(calls) : calls[i].verb = "GET")
    /\ [][check_mode => (remote_repos' = remote_repos /\ remote_tags' = remote_tags)]_vars

\* A dry run returned changes of the settings and of the tags.
C3_Witness ==
    /\ check_mode /\ pc = "done" /\ changes # <<>>
    /\ Len(result.stdout_lines) > Len(changes)
    /\ calls # <<>>

\* C4: a real run from the state a dry run started from, with every call
\* accepted, returns the change list and the changed flag the dry run returned.
C4_DryRunEquivalence ==
    (run = 2 /\ prev.outcome = "done" /\ prev.check_mode /\ pc = "done"
        /\ \A i \in 1..Len(calls) : calls[i].ok)
    => (/\ result.stdout_lines = prev.result.stdout_lines
        /\ result.changed = prev.result.changed)

\* The place of a package tag call, and of a change message, in the order
\* delete, modify, add.
CallRank(c) == IF c.verb = "DELETE" THEN 1 ELSE IF c.verb = "PUT" THEN 2 ELSE 3
MsgRank(m) ==
    IF m.kind = "removing tag template" THEN 1
    ELSE IF m.kind = "adding tag template" THEN 3 ELSE 2

TagCalls == SelectSeq(calls, LAMBDA c : Mutating(c) /\ c.endpoint = "cdn_repo_package_tags")

\* C5: among the mutating package tag calls of one package every delete comes
\* before every edit and every edit before every create, and the change
\* messages of one package have the same order.
C5_DeleteModifyAdd ==
    /\ \A i, j \in 1..Len(TagCalls) :
         (i < j /\ TagCalls[i].pkg = TagCalls[j].pkg)
            => CallRank(TagCalls[i]) <= CallRank(TagCalls[j])
    /\ \A i, j \in 1..Len(changes) :
         (i < j /\ changes[i].pkg = changes[j].pkg)
            => MsgRank(changes[i]) <= MsgRank(changes[j])

\* One package got a delete, an edit and a create call in one run.
C5_Witness ==
    /\ Len(TagCalls) = 3 /\ Len(changes) = 3
    /\ {TagCalls[i].verb : i \in 1..3} = {"DELETE", "PUT", "POST"}
    /\ \A i \in 1..3 : TagCalls[i].pkg = "foo" /\ TagCalls[i].ok

\* C6: every association the listing returned for a package that is not
\* declared gets a removal, and a real run with no package declared leaves
\* the repository without associations.
C6_UnionOfPackages ==
    pc = "done" =>
        /\ \A p \in DOMAIN current \ DOMAIN packages : \A t \in DOMAIN current[p] :
             \E i \in 1..Len(result.stdout_lines) :
                 result.stdout_lines[i] = Msg("removing tag template", p, t, None, None)
        /\ (~check_mode /\ DOMAIN packages = {}) => remote_tags = <<>>

\* C7: the listing stops at the first page that is not full, and the mapping
\* it returns holds every association of the repository.
C7_ListingComplete ==
    JustListed =>
        /\ Len(found) < PAGE_SIZE
        /\ \A i \in 1..Len(remote_tags) :
             LET a == remote_tags[i]
             IN  /\ a.pkg \in DOMAIN current
                 /\ a.tpl \in DOMAIN current[a.pkg]
                 /\ current[a.pkg][a.tpl].id = a.id

\* The lookup was the only call so far and the remote answered it.
LookedUp == Len(calls) = 1 /\ calls[1].endpoint = "cdn_repos" /\ calls[1].ok

\* C8: after the lookup, no match gives None without an error and the create
\* path; several matches give an error and no run with several matches
\* issues a mutating call; one match gives the repository with the package
\* names of the record, none when the record has no packages relationship.
C8_Lookup ==
    /\ (LookedUp /\ remote_repos = <<>>)
         => (/\ cdn_repo = <<>> /\ error = None
             /\ pc = (IF check_mode THEN "done" ELSE "create")
             /\ result.stdout_lines = <<Msg("created", RepoName, 0, None, None)>>)
    /\ (LookedUp /\ Len(remote_repos) > 1) => (pc = "failed" /\ error = "ValueError")
    /\ Len(remote_repos) > 1 => NoMutatingCalls(calls)
    /\ (LookedUp /\ Len(remote_repos) = 1)
         => (/\ pc \in {"diff", "edit", "list"} /\ error = None
             /\ cdn_repo = <<[id |-> remote_repos[1].id,
                              name |-> remote_repos[1].attributes.name,
                              release_type |-> remote_repos[1].attributes.release_type,
                              content_type |-> remote_repos[1].attributes.content_type,
                              use_for_tps |-> remote_repos[1].attributes.use_for_tps,
                              arch |-> remote_repos[1].arch,
                              variants |-> remote_repos[1].variants,
                              package_names |->
                                  IF remote_repos[1].has_packages
                                  THEN remote_repos[1].package_names ELSE <<>>]>>)

\* The lookup found two repositories of the name and the run is over.
C8_Witness == Len(remote_repos) > 1 /\ pc = "failed" /\ LookedUp

\* C9: a refused mutating call is the last call of its run and ends the run
\* with an error; neither the step that ends a run with an error nor any step
\* after it changes the remote.
C9_FailFast ==
    /\ [](\A i \in 1..Len(calls) :
            (Mutating(calls[i]) /\ ~calls[i].ok) => (i = Len(calls) /\ pc = "failed"))
    /\ [][(pc = "failed" \/ pc' = "failed")
            => (remote_repos' = remote_repos /\ remote_tags' = remote_tags)]_vars

\* A package tag call was refused after another one had been applied.
C9_Witness ==
    /\ pc = "failed" /\ Len(TagCalls) = 2
    /\ TagCalls[1].ok /\ ~TagCalls[2].ok

\* C10: a real run that follows a real run aborted by a refused call, with at
\* most one repository of the name and every call accepted, returns without
\* error and leaves the remote matching the declaration.
C10_SelfHealing ==
    (PrevRealAborted /\ Len(remote_repos) <= 1 /\ \A i \in 1..Len(calls) : calls[i].ok)
    => (pc # "failed" /\ (pc = "done" => Converged))

-----------------------------------------------------------------------------
(* The normalizer and the differ *)

\* A tag declaration that is neither a string nor a mapping of one key.
Malformed(tag) == tag.kind = "other" \/ (tag.kind = "dict" /\ Len(tag.items) # 1)

DeclaredMalformed ==
    \E p \in Range(declared.val.packages.keys) :
        LET l == declared.val.packages.val[p]
        IN  \E i \in 1..Len(l) : Malformed(l[i])

\* C11: when some declared tag is neither a string nor a mapping of one key,
\* the run ends with a ValueError at normalize_packages, before any remote call.
C11_Validation ==
    (DeclaredMalformed /\ pc # "start")
        => (pc = "failed" /\ error = "ValueError" /\ calls = <<>>)

\* The template and the restriction a well-formed declaration names.
DeclTpl(tag) == IF tag.kind = "str" THEN tag.tpl ELSE tag.items[1].tpl
DeclHasVariant(tag) == tag.kind = "dict" /\ tag.items[1].has_variant
DeclVariant(tag) == IF DeclHasVariant(tag) THEN tag.items[1].variant ELSE None

\* normalize_packages has just returned.
Normalized == pc = "lookup"

\* C13: for a package whose declarations are well formed, the normalized
\* mapping holds exactly the declared templates, each once with the
\* restriction of its last occurrence and without an id, and a bare string
\* normalizes to the same value as the mapping of that template to an empty
\* restriction.
C13_Normalizer ==
    Normalized =>
        \A p \in Range(declared.val.packages.keys) :
            LET l == declared.val.packages.val[p]
                idx == 1..Len(l)
            IN  (\A i \in idx : ~Malformed(l[i])) =>
                  /\ DOMAIN packages[p] = {DeclTpl(l[i]) : i \in idx}
                  /\ \A i \in idx :
                       (\A j \in idx : DeclTpl(l[j]) = DeclTpl(l[i]) => j <= i)
                          => (/\ packages[p][DeclTpl(l[i])].has_variant = DeclHasVariant(l[i])
                              /\ GetVariant(packages[p][DeclTpl(l[i])]) = DeclVariant(l[i])
                              /\ ~packages[p][DeclTpl(l[i])].has_id)
                  /\ \A i \in idx :
                       normalize_packages(
                           Dict(<<p>>, [q \in {p} |-> <<StrTag(DeclTpl(l[i]))>>]))
                         = normalize_packages(
                             Dict(<<p>>, [q \in {p} |->
                                 <<DictTag(<<Item(DeclTpl(l[i]), FALSE, None)>>)>>]))

\* A template declared with a variant and then with an empty restriction was
\* normalized to one unrestricted entry.
C13_Witness ==
    /\ pc = "lookup"
    /\ declared.val.packages.val = [p \in {"foo"} |->
            <<DictTag(<<Item(1, TRUE, "V1")>>), DictTag(<<Item(1, FALSE, None)>>)>>]
    /\ DOMAIN packages["foo"] = {1}
    /\ ~packages["foo"][1].has_variant

\* ensure_packages_tags has the listing of this run and has not failed.
TagsReached == pc = "tags" \/ (pc = "done" /\ page_number > 0)

TplMsgs(p, t) == {i \in 1..Len(changes) : changes[i].pkg = p /\ changes[i].tpl = t}
TplCalls(p, t) ==
    {i \in 1..Len(calls) : Mutating(calls[i]) /\ calls[i].pkg = p /\ calls[i].tpl = t}

\* C12: for every declared package, the templates to delete, to modify and to
\* add are pairwise disjoint and together are the templates of current and
\* desired; no template gets more than one message or more than one call,
\* and once the package is done each template to delete, to add or with a
\* changed variant has its one message and every other template none.
C12_DifferPartition ==
    \A p \in DOMAIN packages :
        LET cur == CurrentTags(current, p)
            des == packages[p]
            del == tag_templates_to_delete(cur, des)
            mod == tag_templates_to_modify(cur, des)
            add == tag_templates_to_add(cur, des)
            chg == tag_templates_changed(p, cur, des)
        IN  TagsReached =>
              /\ del \cap mod = {} /\ del \cap add = {} /\ mod \cap add = {}
              /\ del \cup mod \cup add = DOMAIN cur \cup DOMAIN des
              /\ chg \subseteq mod
              /\ \A t \in DOMAIN cur \cup DOMAIN des :
                    /\ Cardinality(TplMsgs(p, t)) <= 1
                    /\ Cardinality(TplCalls(p, t)) <= 1
                    /\ (p \notin Range(pkgs_left) /\ cur_pkg # p)
                         => Cardinality(TplMsgs(p, t))
                              = (IF t \in del \cup chg \cup add THEN 1 ELSE 0)

\* A package with a template to delete, one to modify and one to add is done.
C12_Witness ==
    /\ pc = "tags" /\ cur_pkg = None /\ "foo" \in DOMAIN packages \ Range(pkgs_left)
    /\ tag_templates_to_delete(CurrentTags(current, "foo"), packages["foo"]) # {}
    /\ tag_templates_changed("foo", CurrentTags(current, "foo"), packages["foo"]) # {}
    /\ tag_templates_to_add(CurrentTags(current, "foo"), packages["foo"]) # {}
    /\ Len(changes) = 3

-----------------------------------------------------------------------------
(* The calls and messages of ensure_package_tags *)

\* ensure_package_tags of package p has returned in this run.
PackageDone(p) == TagsReached /\ p \in DOMAIN packages \ Range(pkgs_left) /\ cur_pkg # p

\* The messages of the run about template t of package p, in order.
MsgsOf(p, t) == SelectSeq(changes, LAMBDA m : m.pkg = p /\ m.tpl = t)

\* The calls of the run for template t of package p, in order.
CallsOf(p, t) == SelectSeq(calls, LAMBDA c : c.pkg = p /\ c.tpl = t)

\* The one edit call of association id that sets the variant v (None clears it).
EditCall(p, t, id, v) ==
    Call("PUT", "cdn_repo_package_tags", id, 0, p, t, v, NoBody, TRUE)

\* C14: once a package is done, a template in both current and desired has no
\* message and no call when the variants are equal or both missing; one
\* 'removing' message when only current has a variant, one 'adding' message
\* when only desired has one, one 'changing' message when they differ; and
\* with a message goes, outside a dry run, exactly one edit call on the
\* association's id that clears respectively sets the variant.
C14_CompareCases ==
    \A p \in DOMAIN packages :
        PackageDone(p) =>
            \A t \in DOMAIN CurrentTags(current, p) \cap DOMAIN packages[p] :
                LET cur == CurrentTags(current, p)[t]
                    cv == IF cur.has_variant THEN cur.variant ELSE None
                    dv == IF packages[p][t].has_variant THEN packages[p][t].variant
                          ELSE None
                    msg == IF cv # None /\ dv = None
                           THEN Msg("removing variant", p, t, cv, None)
                           ELSE IF cv = None /\ dv # None
                           THEN Msg("adding variant", p, t, None, dv)
                           ELSE Msg("changing variant", p, t, cv, dv)
                IN  IF cv = dv
                    THEN MsgsOf(p, t) = <<>> /\ CallsOf(p, t) = <<>>
                    ELSE /\ MsgsOf(p, t) = <<msg>>
                         /\ CallsOf(p, t) = IF check_mode THEN <<>>
                                            ELSE <<EditCall(p, t, cur.id, dv)>>

\* A real run removed a variant, added one and changed one in one package.
C14_Witness ==
    /\ pc = "done" /\ ~check_mode /\ Len(changes) = 3
    /\ {changes[i].kind : i \in 1..3}
         = {"removing variant", "adding variant", "changing variant"}
    /\ \A i \in 1..3 : changes[i].pkg = "foo"
    /\ Len(TagCalls) = 3 /\ \A i \in 1..3 : TagCalls[i].verb = "PUT" /\ TagCalls[i].ok

\* C15: in a real run, once a package is done, a template of current that is
\* not desired has exactly one call, the delete of its association's id; a
\* desired template that is not in current has exactly one call, the create
\* with the declared variant or without one; and at no point of a run has a
\* template of both with equal variants a call.
C15_DeleteAddCalls ==
    \A p \in DOMAIN packages :
        LET cur == CurrentTags(current, p)
            des == packages[p]
        IN  /\ (PackageDone(p) /\ ~check_mode) =>
                  /\ \A t \in DOMAIN cur \ DOMAIN des :
                        CallsOf(p, t) = <<Call("DELETE", "cdn_repo_package_tags",
                                               cur[t].id, 0, p, t, None, NoBody, TRUE)>>
                  /\ \A t \in DOMAIN des \ DOMAIN cur :
                        CallsOf(p, t) = <<Call("POST", "cdn_repo_package_tags", 0, 0, p, t,
                                               IF des[t].has_variant THEN des[t].variant
                                               ELSE None,
                                               NoBody, TRUE)>>
            /\ (pc \in {"tags", "done", "failed"} /\ page_number > 0) =>
                  \A t \in DOMAIN cur \cap DOMAIN des :
                      (cur[t].has_variant = des[t].has_variant
                         /\ (cur[t].has_variant => cur[t].variant = des[t].variant))
                      => CallsOf(p, t) = <<>>

\* The remote has template 1 of foo unrestricted, the task declares 1 and
\* 2 restricted to V1: the real run made the one call that adds 2 with V1.
C15_Witness ==
    /\ pc = "done" /\ ~check_mode
    /\ DOMAIN current = {"foo"} /\ DOMAIN current["foo"] = {1}
    /\ ~current["foo"][1].has_variant
    /\ DOMAIN packages = {"foo"} /\ DOMAIN packages["foo"] = {1, 2}
    /\ ~packages["foo"][1].has_variant
    /\ TagCalls = <<Call("POST", "cdn_repo_package_tags", 0, 0, "foo", 2, "V1",
                         NoBody, TRUE)>>

-----------------------------------------------------------------------------
(* Creating and editing the repository *)

CreatedMsg == Msg("created", declared.val.name, 0, None, None)

\* The result says that the repository was or would be created.
SaysCreated == result.stdout_lines # <<>> /\ result.stdout_lines[1] = CreatedMsg

CreateCalls == SelectSeq(calls, LAMBDA c : c.verb = "POST" /\ c.endpoint = "cdn_repos")

\* The create call of the declared repository, answered with ok.
DeclaredCreateCall(ok) ==
    Call("POST", "cdn_repos", 0, 0, None, 0, None,
         [name |-> declared.val.name,
          release_type |-> declared.val.release_type,
          content_type |-> declared.val.content_type,
          use_for_tps |-> declared.val.use_for_tps,
          arch_name |-> declared.val.arch,
          variant_names |-> declared.val.variants,
          package_names |-> declared.val.packages.keys],
         ok)

\* C16: when the lookup finds no repository of the name, the result has
\* changed = true and 'created <name>' as its first message; a real run
\* then issues exactly one create call, right after the lookup, whose body has
\* the declared arch as arch_name, the declared variants as variant_names in
\* the declared order and every other declared attribute under its own name;
\* a run that found the repository and a dry run issue none; and with no
\* package declared 'created <name>' is the only message of the run.
C16_Create ==
    /\ (calls # <<>> /\ calls[1].ok /\ remote_repos = <<>>)
          => (result.changed /\ SaysCreated)
    /\ SaysCreated => result.changed
    /\ (SaysCreated /\ ~check_mode /\ pc # "create")
          => (/\ Len(CreateCalls) = 1
              /\ \E ok \in BOOLEAN : calls[2] = DeclaredCreateCall(ok)
              /\ calls[2].ok <=> Len(remote_repos) = 1)
    /\ (~SaysCreated \/ check_mode) => CreateCalls = <<>>
    /\ (SaysCreated /\ pc = "done" /\ declared.val.packages.keys = <<>>)
          => result.stdout_lines = <<CreatedMsg>>

\* No repository repo1, declared with variants V1 and no package: the real
\* run has returned after its one create call.
C16_Witness ==
    /\ pc = "done" /\ ~check_mode /\ run = 1
    /\ result.changed /\ result.stdout_lines = <<CreatedMsg>>
    /\ declared.val.variants = <<"V1">> /\ declared.val.packages.keys = <<>>
    /\ CreateCalls = <<DeclaredCreateCall(TRUE)>>
    /\ Len(remote_repos) = 1 /\ remote_repos[1].variants = <<"V1">>

EditCalls == SelectSeq(calls, LAMBDA c : c.verb = "PUT" /\ c.endpoint = "cdn_repos")

\* The declared attributes that differ from the repository the run works on.
DifferingKeys == {k \in Range(params.keys) : cdn_repo[1][k] # params.val[k]}

\* The declared value that goes under a wire name.
DeclaredValue(w) ==
    IF w = "arch_name" THEN declared.val.arch
    ELSE IF w = "variant_names" THEN declared.val.variants
    ELSE IF w = "package_names" THEN declared.val.packages.keys
    ELSE declared.val[w]

\* The edit call that sends exactly the keys ks under their wire names, each
\* with the declared value.
DeclaredEditCall(ks) ==
    Call("PUT", "cdn_repos", cdn_repo[1].id, 0, None, 0, None,
         [w \in {IF k = "arch" THEN "arch_name"
                  ELSE IF k = "variants" THEN "variant_names" ELSE k : k \in ks}
             |-> DeclaredValue(w)],
         TRUE)

\* C17: a real run that is past the settings of an existing repository has
\* issued exactly one edit call when some declared attribute differs, on the
\* repository's id and with exactly the differing keys, under their wire
\* names and with the declared values, and no edit call when none differs;
\* no run issues more than one edit call and a dry run issues none.
C17_EditBody ==
    /\ Len(EditCalls) <= 1
    /\ check_mode => EditCalls = <<>>
    /\ (~check_mode /\ cdn_repo # <<>> /\ pc \in {"list", "tags", "done"})
          => EditCalls = (IF DifferingKeys = {} THEN <<>>
                          ELSE <<DeclaredEditCall(DifferingKeys)>>)

\* The repository has arch x86_64 and the task declares s390x: the real run
\* has returned after one edit call with arch_name s390x only.
C17_Witness ==
    /\ pc = "done" /\ ~check_mode /\ cdn_repo # <<>>
    /\ cdn_repo[1].arch = "x86_64" /\ declared.val.arch = "s390x"
    /\ EditCalls = <<Call("PUT", "cdn_repos", cdn_repo[1].id, 0, None, 0, None,
                          [arch_name |-> "s390x"], TRUE)>>

-----------------------------------------------------------------------------
(* The result of a run *)

\* The package names the run knows of the remote: those of the listing's
\* elements and those of the repository's package list.
KnownPackages ==
    {elements[i].pkg : i \in 1..Len(elements)}
        \cup (IF cdn_repo = <<>> THEN {} ELSE Range(cdn_repo[1].package_names))

\* C18: the current mapping that get_package_tags returned holds every known
\* package name, and so does the 'before' side of the diff payload of a run
\* on an existing repository; a package without association has an empty
\* tag list there.
C18_ZeroTagPackages ==
    /\ TagsReached => KnownPackages \subseteq DOMAIN current
    /\ (pc = "done" /\ page_number > 0 /\ result.diff # <<>>
            /\ result.diff[1].before_present)
          => \A p \in KnownPackages :
                /\ p \in DOMAIN result.diff[1].before_packages
                /\ (\A i \in 1..Len(elements) : elements[i].pkg # p)
                      => result.diff[1].before_packages[p] = <<>>

\* C19: when a run has returned its result, in a dry run or a real run, the
\* result holds a diff exactly when changed is true, and changed is true
\* exactly when the change list is not empty.
C19_DiffIffChanged ==
    pc = "done" =>
        /\ (result.diff # <<>>) <=> result.changed
        /\ result.changed <=> (result.stdout_lines # <<>>)

\* A dry run on an existing repository has returned changes and the diff
\* made at its end.
C19_Witness ==
    /\ pc = "done" /\ check_mode /\ result.changed
    /\ result.diff # <<>> /\ result.diff[1].before_present
    /\ changes # <<>>

-----------------------------------------------------------------------------
(* The repository is never deleted *)

\* The delete and create calls of the run so far are in order: each delete
\* addresses an element of this run's listing, and the one create call
\* follows a lookup that found no repository.
CallsInOrder ==
    /\ \A i \in 1..Len(calls) :
          calls[i].verb = "DELETE" =>
              /\ calls[i].endpoint = "cdn_repo_package_tags"
              /\ \E j \in 1..Len(elements) :
                    /\ elements[j].id = calls[i].id
                    /\ elements[j].pkg = calls[i].pkg
                    /\ elements[j].tpl = calls[i].tpl
    /\ Len(CreateCalls) <= 1
    /\ CreateCalls # <<>> =>
          /\ calls[1].verb = "GET" /\ calls[1].endpoint = "cdn_repos" /\ calls[1].ok
          /\ calls[2] = CreateCalls[1]
          /\ Len(remote_repos) = (IF calls[2].ok THEN 1 ELSE 0)

\* C20: every delete call of a run is a deletion of one package tag
\* association, addressed by the id of an element that the listing of this
\* run returned for that package and template; a run issues at most one
\* create call of the repository, right after a lookup that found none; and
\* no step removes a repository from the remote or replaces it.
C20_NeverDeletesRepo ==
    /\ []CallsInOrder
    /\ [][/\ Len(remote_repos') >= Len(remote_repos)
           /\ \A i \in 1..Len(remote_repos) : remote_repos'[i].id = remote_repos[i].id]_vars

\* A real run on an existing repository has returned after a delete call
\* that the remote applied.
C20_Witness ==
    /\ pc = "done" /\ ~check_mode /\ Len(remote_repos) = 1
    /\ \E i \in 1..Len(calls) : calls[i].verb = "DELETE" /\ calls[i].ok

-----------------------------------------------------------------------------
(* The page loop *)

\* The page requests of the run so far.
PageCalls ==
    SelectSeq(calls, LAMBDA c : c.verb = "GET" /\ c.endpoint = "cdn_repo_package_tags")

\* C21: when get_package_tags has returned for a repository with n
\* associations, it has issued floor(n / PAGE_SIZE) + 1 page requests, for
\* the pages 1, 2, ... in order: one more than the full pages.
C21_PageCount ==
    JustListed =>
        /\ Len(PageCalls) = (Len(remote_tags) \div PAGE_SIZE) + 1
        /\ \A i \in 1..Len(PageCalls) : PageCalls[i].page = i /\ PageCalls[i].ok

-----------------------------------------------------------------------------
(* The diff payload's packages *)

\* A packages mapping without the ids of its tags.
StripIds(m) ==
    [p \in DOMAIN m |->
        [t \in DOMAIN m[p] |-> TagInfo(m[p][t].has_variant, m[p][t].variant, FALSE, 0)]]

\* The keys of a mapping in some order.
KeysOf(m) ==
    CHOOSE s \in [1..Cardinality(DOMAIN m) -> DOMAIN m] : Range(s) = DOMAIN m

\* The template a rendered tag names.
RenderedTpl(tag) == IF tag.kind = "str" THEN tag.tpl ELSE tag.items[1].tpl

\* lists is the rendering of the mapping m: per package a list in template
\* order, a restricted tag as a mapping of one key to its variant, an
\* unrestricted tag as the bare template, and normalizing it gives m
\* without ids.
RendersAs(lists, m) ==
    /\ DOMAIN lists = DOMAIN m
    /\ \A p \in DOMAIN lists :
          LET l == lists[p]
          IN  /\ Len(l) = Cardinality(DOMAIN m[p])
              /\ \A i \in 1..Len(l) :
                    /\ l[i].kind = "str"
                         \/ (l[i].kind = "dict" /\ Len(l[i].items) = 1
                               /\ l[i].items[1].has_variant)
                    /\ RenderedTpl(l[i]) \in DOMAIN m[p]
                    /\ (l[i].kind = "dict") <=> m[p][RenderedTpl(l[i])].has_variant
                    /\ l[i].kind = "dict"
                         => l[i].items[1].variant = m[p][RenderedTpl(l[i])].variant
                    /\ i < Len(l) => RenderedTpl(l[i]) < RenderedTpl(l[i + 1])
    /\ normalize_packages(Dict(KeysOf(lists), lists))
          = [err |-> None, pk |-> StripIds(m)]

\* C22: in the diff of a returned run, the after side's packages render the
\* normalized declared mapping and the before side's packages the current
\* mapping: sorted by template, restricted tags as mappings of one key,
\* unrestricted tags as bare strings, and normalize_packages of the
\* rendering is the mapping without ids; a package with the same tags on
\* both sides renders identically.
C22_DiffRendering ==
    (pc = "done" /\ result.diff # <<>>) =>
        LET d == result.diff[1]
        IN  /\ RendersAs(d.after_packages, packages)
            /\ d.before_present =>
                  /\ RendersAs(d.before_packages, current)
                  /\ \A p \in DOMAIN current \cap DOMAIN packages :
                        StripIds(current)[p] = packages[p]
                            => d.before_packages[p] = d.after_packages[p]

\* A run returned a diff whose before side has a restricted and an
\* unrestricted tag of foo and whose after side has two tags of foo.
C22_Witness ==
    /\ pc = "done" /\ result.diff # <<>> /\ result.diff[1].before_present
    /\ "foo" \in DOMAIN current /\ "foo" \in DOMAIN packages
    /\ \E t, u \in DOMAIN current["foo"] :
          current["foo"][t].has_variant /\ ~current["foo"][u].has_variant
    /\ Len(result.diff[1].before_packages["foo"]) >= 2
    /\ Len(result.diff[1].after_packages["foo"]) >= 2

-----------------------------------------------------------------------------
(* The order of the calls of a run *)

\* The place of a call in a run: the lookup, the create, the edit, the
\* listing, the package tag mutations.
StepRank(c) ==
    IF c.endpoint = "cdn_repos"
    THEN (IF c.verb = "GET" THEN 1 ELSE IF c.verb = "POST" THEN 2 ELSE 3)
    ELSE (IF c.verb = "GET" THEN 4 ELSE 5)

\* The place of a message in the change list: 'created', the settings, the tags.
LineRank(m) ==
    IF m.kind = "created" THEN 1 ELSE IF m.kind = "changing setting" THEN 2 ELSE 3

\* C23: in every run the lookup is the first call and the only lookup; the
\* calls follow in the order create, edit, listing, package tag mutations;
\* a run that has its listing has requested page 1 exactly once; and the
\* change list of the result has 'created' first, then the settings'
\* changes, then the tag changes.
C23_CallOrder ==
    /\ calls # <<>> => StepRank(calls[1]) = 1
    /\ \A i, j \in 1..Len(calls) :
          i < j => (StepRank(calls[i]) <= StepRank(calls[j]) /\ StepRank(calls[j]) > 1)
    /\ TagsReached =>
          Cardinality({i \in 1..Len(PageCalls) : PageCalls[i].page = 1}) = 1
    /\ \A i, j \in 1..Len(result.stdout_lines) :
          i < j => /\ LineRank(result.stdout_lines[i]) <= LineRank(result.stdout_lines[j])
                   /\ LineRank(result.stdout_lines[j]) > 1

\* A real run has returned after the lookup, an edit, the listing and a
\* package tag mutation, with a settings change and a tag change reported.
C23_Witness ==
    /\ pc = "done" /\ ~check_mode
    /\ {StepRank(calls[i]) : i \in 1..Len(calls)} = {1, 3, 4, 5}
    /\ {LineRank(result.stdout_lines[i]) : i \in 1..Len(result.stdout_lines)} = {2, 3}

-----------------------------------------------------------------------------
(* The mappings a run works on *)

\* C24: the current mapping is the snapshot assembled from the listing's
\* elements, every entry with its id and variant, and from the start of
\* ensure_packages_tags' loop to the return of ensure_cdn_repo no step
\* changes the current mapping, the normalized declared mapping or the
\* task's parameters, whatever delete, edit and create calls are issued.
C24_InputsUnchanged ==
    /\ [](JustListed =>
            /\ current = AssembleElements(elements)
            /\ \A p \in DOMAIN current : \A t \in DOMAIN current[p] :
                 /\ current[p][t].has_id
                 /\ \E i \in 1..Len(elements) :
                      /\ elements[i].pkg = p /\ elements[i].tpl = t
                      /\ elements[i].id = current[p][t].id
                      /\ elements[i].has_variant = current[p][t].has_variant
                      /\ elements[i].variant = current[p][t].variant)
    /\ [][pc = "tags" => (/\ current' = current
                          /\ packages' = packages
                          /\ declared' = declared)]_vars

\* A real run has returned after a delete, an edit and a create call for
\* package foo, and the current mapping still has foo's listed tags.
C24_Witness ==
    /\ pc = "done" /\ ~check_mode
    /\ {TagCalls[i].verb : i \in 1..Len(TagCalls)} = {"DELETE", "PUT", "POST"}
    /\ \A i \in 1..Len(TagCalls) : TagCalls[i].ok
    /\ "foo" \in DOMAIN current /\ Cardinality(DOMAIN current["foo"]) >= 2
    /\ \A t \in DOMAIN current["foo"] : current["foo"][t].has_id

====
